---- MODULE Spec2Model ----
(***************************************************************************)
(* A model of panel's Param pane (src/panel/param.py): the widget tree a   *)
(* Param pane builds for a parameterized object, the links between the     *)
(* object's parameters and the widgets, and the rebuilds of the tree.      *)
(*                                                                         *)
(* The parameterized object is the one of the specification's scenario,   *)
(* extended by two selectors of sub-objects and an action:                 *)
(*     a = param.Number(0, bounds=(0, MaxVal))                             *)
(*     b = param.Boolean(False)                                            *)
(*     c = param.ObjectSelector(objects=[plain, sub1, ...])                *)
(*     d = param.ObjectSelector(objects=[plain, sub1, ...])                *)
(*     act = param.Action(f0)                                              *)
(* A pane is given a, b and c unless a specification says otherwise; the   *)
(* sub-objects of c and of d are different objects.  The object may have   *)
(* a watcher of its own on a (reaction), called before the pane's links.   *)
(* The reactive wrappers ParamMethod and ParamFunction are modelled with   *)
(* an owner O of their own: parameters x, y and sub, the sub-objects a z.  *)
(* Python 3.6+ is the platform: dictionaries keep insertion order and      *)
(* comparing None with a number raises TypeError.                          *)
(***************************************************************************)
EXTENDS Integers, Sequences, FiniteSets, TLC

\* ---------------------------------------------------------------- bounds
\* precedences and thresholds range over 0..MaxPrec
MaxPrec == 1
\* parameter values range over 0..MaxVal; MaxVal + 1 is outside a's bounds
MaxVal == 1
\* how many times the tree is rebuilt after construction
MaxRebuilds == 1
\* how many parameters the widgets dictionary overrides at a time
MaxOverrides == 1

\* ------------------------------------------------- the object under test
\* Python's None, for a precedence that is absent
None == 0 - 1

\* the parameters in declaration order (object.param, 'name' left out)
Declared == <<"a", "b", "c", "d", "act">>

Params == {Declared[i] : i \in 1..Len(Declared)}

\* the declared type of each parameter
ptype == [a |-> "Number", b |-> "Boolean", c |-> "ObjectSelector",
          d |-> "ObjectSelector", act |-> "Action"]

\* the parameters of the scenario, the whitelist most panes are given
Scenario == {"a", "b", "c"}

\* the parameter descriptor self.object.param[p_name]
pobj(p) == [name |-> p, type |-> ptype[p], path |-> FALSE]

\* param.parameterized.classlist: the inheritance chain, base class first
classlist(t) ==
    CASE t = "Number"         -> <<"Parameter", "Dynamic", "Number">>
      [] t = "Integer"        -> <<"Parameter", "Dynamic", "Number", "Integer">>
      [] t = "Boolean"        -> <<"Parameter", "Boolean">>
      [] t = "String"         -> <<"Parameter", "String">>
      [] t = "ObjectSelector" -> <<"Parameter", "SelectorBase", "ObjectSelector">>
      [] t = "FileSelector"   -> <<"Parameter", "SelectorBase", "ObjectSelector", "FileSelector">>
      [] t = "Action"         -> <<"Parameter", "Callable", "Action">>
      [] t = "Magnitude"      -> <<"Parameter", "Dynamic", "Number", "Magnitude">>
      [] t = "List"           -> <<"Parameter", "List">>
      [] OTHER                -> <<"Parameter">>

\* Param._mapping: parameter type -> widget type (or factory)
_mapping == [Action         |-> "Button",
             Parameter      |-> "LiteralInput",
             Color          |-> "ColorPicker",
             Dict           |-> "LiteralInput",
             Selector       |-> "Select",
             ObjectSelector |-> "Select",
             FileSelector   |-> "FileSelector",
             Boolean        |-> "Checkbox",
             Number         |-> "FloatSlider",
             Integer        |-> "IntSlider",
             Range          |-> "RangeSlider",
             String         |-> "TextInput",
             ListSelector   |-> "MultiSelect",
             Date           |-> "DatetimeInput",
             DateRange      |-> "DateRangeSlider"]

\* the module-level factory FileSelector(pobj)
FileSelector(po) == IF po.path THEN "Select" ELSE "TextInput"

RECURSIVE widget_type_walk(_, _, _)
widget_type_walk(po, chain, i) ==
    IF i = 0 THEN "NoWidget"
    ELSE IF chain[i] \in DOMAIN _mapping
         THEN IF _mapping[chain[i]] = "FileSelector"
              THEN FileSelector(po)
              ELSE _mapping[chain[i]]
         ELSE widget_type_walk(po, chain, i - 1)

\* a resolver that takes the mapping of the base of the chain
widget_type_of_base(po) == widget_type_walk(po, classlist(po.type), 1)

\* Param.widget_type: the mapping of the most specific mapped ancestor
widget_type(po) == widget_type_walk(po, classlist(po.type), Len(classlist(po.type)))

\* hasattr(p_obj, 'get_range')
has_get_range(p) == ptype[p] \in {"ObjectSelector", "FileSelector"}

\* hasattr(p_obj, 'get_soft_bounds')
has_get_soft_bounds(p) == ptype[p] \in {"Number", "Integer"}

\* p_obj.get_soft_bounds(): a's bounds are both set
get_soft_bounds(p) == <<0, MaxVal>>

\* the values the parameter's validation accepts (object.set_param raises
\* ValueError for any other)
Accepts(p, v) ==
    CASE ptype[p] = "Number"  -> v \in 0..MaxVal
      [] ptype[p] = "Boolean" -> v \in 0..1
      [] OTHER                -> v \in 0..MaxVal

\* util.is_parameterized of a value of parameter p: the objects of a
\* selector are a plain object (0) and parameterized sub-objects (1, 2, ...)
is_parameterized(p, v) == ptype[p] = "ObjectSelector" /\ v >= 1

\* the widget class the caller's override of parameter p names
OvClass(p) ==
    CASE p = "a" -> "IntSlider"
      [] p = "b" -> "Toggle"
      [] OTHER   -> "RadioBoxGroup"

\* 'options' in widget_class.param
HasOptions(wc) == wc \in {"Select", "MultiSelect", "RadioBoxGroup"}

\* the values a widget of class wc can be given
CtlDomain(wc) ==
    CASE wc \in {"Checkbox", "Toggle"} -> 0..1
      [] HasOptions(wc)                -> 0..MaxVal
      [] OTHER                         -> 0..(MaxVal + 1)

\* the pane's display configuration (the defaults of the class)
expand_button == "None"
expand == FALSE
show_name == TRUE

\* Param.default_precedence (1e-8): a precedence k sorts as 2k, an absent
\* one as this, strictly between precedence 0 and precedence 1
default_precedence == 1

VARIABLES
    precedence,         \* object.param[p].precedence: None or 0..MaxPrec
    value,              \* the object's parameter values
    display_threshold,  \* Param.display_threshold
    parameters,         \* Param.parameters, the whitelist
    widgets,            \* Param.widgets, the overrides (the caller's dict)
    _updating,          \* Param._updating, the re-entrancy guard
    _widgets,           \* Param._widgets: OrderedDict name -> widget
    box,                \* Param._widget_box.objects
    watchers,           \* every subscription param holds (object and widgets)
    nbuilds,            \* number of runs of the build so far
    reaction,           \* what the object's own watcher of a change of a does
    meta,               \* the object's constant flag, label, objects, bounds per parameter
    wmeta,              \* what the widgets of the tree show of them
    toggles,            \* the expand toggles of the current tree: value, disabled
    held,               \* the toggle the update_pane closures of the tree hold
    nested,             \* the nested panes in Param._expand_layout
    _expand_layout,     \* Param._expand_layout: the widget box or another layout
    expand_layout,      \* Param.expand_layout, as the constructor was given it
    init_error,         \* the exception Param.__init__ raised, "none" if none
    show_labels,        \* Param.show_labels
    wasOpen,            \* history: the parameters expanded before the last operation
    supplied,           \* history: the overrides as the caller supplied them
    lastOp,             \* history: the last operation and its arguments
    obs,                \* history: what the last operation's handlers did
    prevBuild,          \* history: the tree before the last operation
    thrHist             \* history: a raise of the threshold and its undoing

\* a reactive wrapper (ParamMethod or ParamFunction) and the objects its
\* callable depends on
VARIABLES
    dinfo,              \* the callable's declared dependencies (_dinfo)
    ovalue,             \* the parameter values of the owner O and its sub-objects
    deps,               \* the list deps of ParamMethod._link_object_params
    wrapper_callbacks,  \* the wrapper's self._callbacks: its listeners
    _pane,              \* the rendered wrapper self._pane
    _inner_layout,      \* self._inner_layout, holding the rendered wrapper
    upd                 \* history: the last operation and its last _update_pane

\* one call of Param.widget for a parameter with given soft bounds and step
VARIABLES
    ctl                 \* the call's inputs and the control it built

\* one call of Param.widget_type
VARIABLES
    res                 \* the descriptor it is called with and what it returns

\* the evaluations of a callable by ParamMethod._eval_function
VARIABLES
    ev                  \* the callable, its dependencies' values, the last call

pvars == <<precedence, value, display_threshold, parameters, widgets, _updating,
           _widgets, box, watchers, nbuilds, reaction, meta, wmeta, toggles, held, nested, _expand_layout,
           expand_layout, init_error, show_labels,
           wasOpen, supplied, lastOp, obs, prevBuild, thrHist>>

rvars == <<dinfo, ovalue, deps, wrapper_callbacks, _pane, _inner_layout, upd>>

fvars == <<ctl, res, ev>>

vars == <<pvars, rvars, fvars>>

\* ------------------------------------------------------------ identities
ObjId == [kind |-> "object", p |-> "", wid |-> 0]
WId(p, k) == [kind |-> "widget", p |-> p, wid |-> k]
RowId(p, k) == [kind |-> "row", p |-> p, wid |-> k]
ToggleId(p, k) == [kind |-> "toggle", p |-> p, wid |-> k]

\* an entry of self.widgets: kind is absent (no key), type (a widget class),
\* instance (a ready-made widget: its identity and its current value),
\* dict_type (a dict with a 'type' key) or dict (a dict without one)
Absent == [kind |-> "absent", wid |-> 0, value |-> 0]

\* the kinds of override a caller supplies
OvKinds == {"type", "instance", "dict_type"}

\* -------------------------------------------------------- sequence tools
Range(seq) == {seq[i] : i \in 1..Len(seq)}

RECURSIVE SeqOfSet(_, _)
\* the members of set S in the order of sequence ord
SeqOfSet(S, ord) ==
    IF ord = <<>> THEN <<>>
    ELSE (IF Head(ord) \in S THEN <<Head(ord)>> ELSE <<>>) \o SeqOfSet(S, Tail(ord))

RECURSIVE Insert(_, _, _)
\* x put into the sorted sequence seq after every element whose key is <= its own
Insert(seq, x, key) ==
    IF seq = <<>> THEN <<x>>
    ELSE IF key[Head(seq)] <= key[x]
         THEN <<Head(seq)>> \o Insert(Tail(seq), x, key)
         ELSE <<x>> \o seq

RECURSIVE sorted(_, _)
\* Python's sorted(seq, key=key), key a function: a stable sort
sorted(seq, key) ==
    IF seq = <<>> THEN <<>>
    ELSE Insert(sorted(SubSeq(seq, 1, Len(seq) - 1), key), seq[Len(seq)], key)

\* ------------------------------------------------------------- the build
\* key_fn of _ordered_params: the precedence, or the default when absent
key_fn(prec) ==
    [p \in Params |-> IF prec[p] # None THEN 2 * prec[p] ELSE default_precedence]

\* _ordered_params without its sort: the whitelisted parameters as declared
_ordered_params_unsorted(prec, params) == SeqOfSet(params, Declared)

\* Param._ordered_params: the whitelisted parameters sorted by precedence,
\* those of equal precedence in declaration order, 'name' left out
_ordered_params(prec, params) == sorted(SeqOfSet(params, Declared), key_fn(prec))

\* the test of _update_widgets and of link for showing a parameter
shown(prec, thr, p) == prec[p] = None \/ prec[p] >= thr

\* Param.widget, the choice of the widget class: the class and what is left
\* of the override (a dict's 'type' is popped out of the caller's dict)
widget_class(ov, p) ==
    CASE ov.kind = "absent"    -> [cls |-> widget_type(pobj(p)), ov |-> ov]
      [] ov.kind = "dict_type" -> [cls |-> OvClass(p), ov |-> [ov EXCEPT !.kind = "dict"]]
      [] ov.kind = "dict"      -> [cls |-> widget_type(pobj(p)), ov |-> ov]
      [] OTHER                 -> [cls |-> OvClass(p), ov |-> ov]

\* Param.widget, the bounds: without both bounds a widget class other than
\* LiteralInput is replaced by LiteralInput
bounds_fallback(p, cls) ==
    IF /\ has_get_soft_bounds(p)
       /\ (get_soft_bounds(p)[1] = None \/ get_soft_bounds(p)[2] = None)
       /\ cls # "LiteralInput"
    THEN "LiteralInput"
    ELSE cls

\* kwargs.get('options', []): p_obj.get_range() when the class takes options
widget_options(p, cls) ==
    IF has_get_range(p) /\ HasOptions(cls) THEN 0..MaxVal ELSE {}

\* Param.widget, the last test: the widget is paired with an expand toggle
with_toggle(p, val, cls) ==
    /\ is_parameterized(p, val) \/ \E o \in widget_options(p, cls) : is_parameterized(p, o)
    /\ expand_button = "True" \/ (expand_button = "None" /\ ~expand)

\* the change kinds Param.widget subscribes link to, in its order
link_whats(p) ==
    <<"constant", "precedence", "label">>
    \o (IF has_get_range(p) THEN <<"objects">> ELSE <<>>)
    \o (IF has_get_soft_bounds(p) THEN <<"bounds">> ELSE <<>>)
    \o <<"value">>

\* the attributes of a parameter, besides value and precedence, that link
\* passes on to the widget
Whats == {"constant", "label", "objects", "bounds"}

\* a subscription: the object it is on, the handler, the parameter and the
\* change kind it listens to, and the widget the handler's closure holds
Watcher(inst, fn, p, what, k) ==
    [inst |-> inst, fn |-> fn, p |-> p, what |-> what, wid |-> k, arg |-> 0]

\* the subscription of action(change) to the clicks of widget k of an Action
\* parameter; the closure holds the callable f
ActionWatcher(p, k, f) == [Watcher(WId(p, k), "action", p, "clicks", k) EXCEPT !.arg = f]

\* Param.widget, the links: widget k of class cls showing wval, the override
\* left behind (ov), the subscriptions appended to self._callbacks (cbs) and
\* the subscription on the widget that is kept in link's closure only (ww);
\* a Toggle gets none
widget_linked(p, rest, cls, k, wval, row) ==
    [w   |-> [p |-> p, wtype |-> cls, wid |-> k, row |-> row, value |-> wval],
     ov  |-> rest,
     ww  |-> IF cls = "Toggle" THEN <<>>
             ELSE IF ptype[p] = "Action" THEN <<ActionWatcher(p, k, wval)>>
             ELSE <<Watcher(WId(p, k), "link_widget", p, "value", k)>>,
     cbs |-> IF cls # "Toggle"
             THEN [i \in 1..Len(link_whats(p)) |->
                      Watcher(ObjId, "link", p, link_whats(p)[i], k)]
             ELSE <<>>]

\* Param.widget, the instantiation: a ready-made instance is used as it is,
\* a class is instantiated with the parameter's value
widget_instance(p, ov, val, n, rest, cls) ==
    widget_linked(p, rest, cls,
                  IF ov.kind = "instance" THEN ov.wid ELSE n,
                  IF ov.kind = "instance" THEN ov.value ELSE val,
                  with_toggle(p, val, cls))

\* Param.widget past the choice sel of the class
widget_chosen(p, ov, val, n, sel) ==
    widget_instance(p, ov, val, n, sel.ov, bounds_fallback(p, sel.cls))

\* Param.widget(p_name) in build n
widget(p, ov, val, n) == widget_chosen(p, ov, val, n, widget_class(ov, p))

\* the StaticText showing the object's name
name_widget(n) ==
    [p |-> "name", wtype |-> "StaticText", wid |-> n, row |-> FALSE, value |-> 0]

\* the widget r of the first parameter put before those of the others
build_join(r, rest) ==
    [ws |-> <<r.w>> \o rest.ws, cbs |-> r.cbs \o rest.cbs,
     ww |-> r.ww \o rest.ww, ovs |-> rest.ovs]

RECURSIVE build_all(_, _, _, _)
\* the widgets of Tail(ps), built after r, the widget of Head(ps)
build_next(ps, ovs, vals, n, r) ==
    build_join(r, build_all(Tail(ps), [ovs EXCEPT ![Head(ps)] = r.ov], vals, n))

\* [self.widget(pname) for pname in self._ordered_params]
build_all(ps, ovs, vals, n) ==
    IF ps = <<>> THEN [ws |-> <<>>, cbs |-> <<>>, ww |-> <<>>, ovs |-> ovs]
    ELSE build_next(ps, ovs, vals, n, widget(Head(ps), ovs[Head(ps)], vals[Head(ps)], n))

\* Param._get_widgets in build n (expand_layout is Column, not Tabs)
_get_widgets(prec, params, ovs, vals, n) ==
    [build_all(_ordered_params(prec, params), ovs, vals, n)
        EXCEPT !.ws = (IF show_name THEN <<name_widget(n)>> ELSE <<>>) \o @]

\* the object a widget of self._widgets is in the widget box as
BoxId(w, n) == IF w.row THEN RowId(w.p, n) ELSE WId(w.p, w.wid)

\* is the entry of self._widgets for a parameter shown; the object's own
\* 'name' parameter declares no precedence
entry_shown(prec, thr, w) == w.p = "name" \/ shown(prec, thr, w.p)

\* Param._link_subobjects of build n: update_pane on the selector and
\* toggle_pane on the toggle, for every widget with a parameterized value
\* or option
RECURSIVE _link_subobjects(_, _)
_link_subobjects(ws, n) ==
    IF ws = <<>> THEN <<>>
    ELSE LET w == Head(ws)
             sub == /\ w.p # "name"
                    /\ \/ is_parameterized(w.p, w.value)
                       \/ \E o \in widget_options(w.p, w.wtype) : is_parameterized(w.p, o)
         IN  (IF sub
              THEN <<Watcher(WId(w.p, w.wid), "update_pane", w.p, "value", w.wid)>>
                   \o (IF w.row
                       THEN <<Watcher(ToggleId(w.p, n), "toggle_pane", w.p, "value", w.wid)>>
                       ELSE <<>>)
              ELSE <<>>) \o _link_subobjects(Tail(ws), n)

\* the pane and the object as one record, for the handlers to work on
State ==
    [precedence |-> precedence, value |-> value,
     display_threshold |-> display_threshold, parameters |-> parameters,
     widgets |-> widgets, _updating |-> _updating, _widgets |-> _widgets,
     box |-> box, watchers |-> watchers,
     nbuilds |-> nbuilds,
     toggles |-> toggles, held |-> held, nested |-> nested,
     _expand_layout |-> _expand_layout,
     raised |-> FALSE, reinserted |-> FALSE,
     objEv |-> <<>>, ctlEv |-> <<>>, objCalls |-> 0, ctlCalls |-> 0,
     called |-> <<>>, live |-> <<>>,
     inflight |-> {}, links |-> {}, crossed |-> {},
     reaction |-> reaction, meta |-> meta, wmeta |-> wmeta,
     show_labels |-> show_labels,
     old |-> [p \in Params |-> 0]]

\* Param._callbacks: the subscriptions the pane keeps a reference to, which
\* are all but link_widget's (that one is held by link's closure only)
_callbacks(s) == SelectSeq(s.watchers, LAMBDA cb : cb.fn # "link_widget")

\* a tear-down that drops every subscription of self._callbacks
torn_down_all(s) == Range(_callbacks(s))

\* _update_widgets, the tear-down: the subscriptions of self._callbacks whose
\* object is in the widget box are unwatched and dropped
torn_down(s) == {cb \in Range(_callbacks(s)) : cb.inst \in Range(s.box)}

\* the test of _link_subobjects and of Param.widget: the widget's value or
\* one of its options is a parameterized object
has_subobject(w) ==
    /\ w.p # "name"
    /\ \/ is_parameterized(w.p, w.value)
       \/ \E o \in widget_options(w.p, w.wtype) : is_parameterized(w.p, o)

\* Param.widget: the Toggle of a Row, switched off, disabled unless the
\* value is a parameterized object; no toggle for a widget without a Row
new_toggles(ws) ==
    [p \in Params |->
        IF \E i \in 1..Len(ws) : ws[i].p = p /\ ws[i].row
        THEN [value |-> FALSE,
              disabled |-> \A i \in 1..Len(ws) :
                              ws[i].p = p => ~is_parameterized(p, ws[i].value)]
        ELSE [value |-> FALSE, disabled |-> TRUE]]

\* _link_subobjects: update_pane reads the loop's variable toggle when it is
\* called, which by then is the toggle of the last widget linked (none when
\* that widget has no Row); q are the widgets linked, in order
last_toggle(q) ==
    IF q = <<>> THEN "" ELSE IF q[Len(q)].row THEN q[Len(q)].p ELSE ""

\* the subscriptions left when those of dead are unwatched
unwatched(s, dead) == SelectSeq(s.watchers, LAMBDA cb : cb \notin dead)

\* self._widget_box.objects = widgets, of the entries disp of build n
box_objects(disp, n) == [i \in 1..Len(disp) |-> BoxId(disp[i], n)]

\* the widget classes that derive from _ButtonBase
_ButtonBase == {"Button", "Toggle"}

\* the name of a widget without a label
EmptyLabel == -1

\* Param.widget, the label of widget i of ws: empty when labels are not
\* shown and the class is not a button's, else the parameter's label
widget_label(sl, i, ws, label) ==
    IF ~sl /\ ws[i].wtype \notin _ButtonBase THEN EmptyLabel ELSE label

\* _update_widgets past the tear-down: the widgets r of build n are kept,
\* those to be shown are put in the box, the sub-objects are linked
show_widgets(s, n, live, r) ==
    [s EXCEPT !.nbuilds = n,
              !.live = live,
              !.wmeta = [p \in Params |->
                            IF r.ovs[p].kind # "instance"
                               /\ \E i \in 1..Len(r.ws) : r.ws[i].p = p
                            THEN [s.meta[p] EXCEPT !["label"] =
                                     widget_label(s.show_labels,
                                         (CHOOSE i \in 1..Len(r.ws) : r.ws[i].p = p),
                                         r.ws, @)]
                            ELSE @[p]],
              !.widgets = r.ovs,
              !._widgets = r.ws,
              !.toggles = new_toggles(r.ws),
              !.held = IF ~(expand_button = "False" /\ ~expand)
                       THEN last_toggle(SelectSeq(r.ws, has_subobject)) ELSE "",
              !.nested = IF s._expand_layout = "box" THEN <<>> ELSE @,
              !.box = box_objects(
                          SelectSeq(r.ws, LAMBDA w :
                              entry_shown(s.precedence, s.display_threshold, w)), n),
              !.watchers = live \o r.ww \o r.cbs
                           \o (IF ~(expand_button = "False" /\ ~expand)
                               THEN _link_subobjects(r.ws, n) ELSE <<>>)]

\* Param._update_widgets past its event handling: tear down, build, show
_update_widgets(s) ==
    show_widgets(s, s.nbuilds + 1, unwatched(s, torn_down(s)),
                 _get_widgets(s.precedence, s.parameters, s.widgets, s.value,
                              s.nbuilds + 1))

\* ------------------------------------------------------------- the links
\* the entry of self._widgets for parameter p, as a set (empty when absent)
Entries(s, p) == {s._widgets[i] : i \in {j \in 1..Len(s._widgets) : s._widgets[j].p = p}}

\* the widget (p, k) is one the model keeps the value of: a widget of the
\* current tree, or the ready-made instance of the overrides
IsCurrent(s, p, k) == \E e \in Entries(s, p) : e.wid = k
IsInstance(s, p, k) == s.widgets[p].kind = "instance" /\ s.widgets[p].wid = k

WidgetValue(s, p, k) ==
    IF IsInstance(s, p, k) THEN s.widgets[p].value
    ELSE (CHOOSE e \in Entries(s, p) : e.wid = k).value

\* the value attribute of widget (p, k) becomes v
SetWidgetValue(s, p, k, v) ==
    [s EXCEPT !._widgets = [i \in 1..Len(s._widgets) |->
                              IF s._widgets[i].p = p /\ s._widgets[i].wid = k
                              THEN [s._widgets[i] EXCEPT !.value = v]
                              ELSE s._widgets[i]],
              !.widgets = [q \in Params |->
                              IF q = p /\ IsInstance(s, p, k)
                              THEN [s.widgets[q] EXCEPT !.value = v]
                              ELSE s.widgets[q]]]

\* the subscriptions on object inst for a change of kind what of parameter p
Subscribed(s, inst, p, what) ==
    SelectSeq(s.watchers, LAMBDA w : w.inst = inst /\ w.p = p /\ w.what = what)

\* link_widget's "if self._updating: return"
link_widget_skips(s) == s._updating

\* link without its test of the guard
link_skips_never(s) == FALSE

\* link's "elif self._updating: return", reached by a value change
link_skips(s) == s._updating

\* link_widget releasing the guard after the try block, not in a finally
link_widget_release_on_return(s) == IF s.raised THEN s ELSE [s EXCEPT !._updating = FALSE]

\* the finally clause of link_widget: release the guard on every exit
link_widget_finally(s) == [s EXCEPT !._updating = FALSE]

\* the finally clause of link
link_finally(s) == [s EXCEPT !._updating = FALSE]

\* link, the precedence at or above the threshold: the box is given the
\* widgets of self._widgets for the names keep
refill(s, keep) ==
    [s EXCEPT !.reinserted = TRUE,
              !.nested = IF s._expand_layout = "box" THEN <<>> ELSE @,
              !.box = [i \in 1..Len(keep) |->
                          BoxId(CHOOSE e \in Entries(s, keep[i]) : TRUE, s.nbuilds)]]

\* link, a change of precedence to new: comparing None raises TypeError;
\* below the threshold the closure's widget is popped when it is in the
\* box; at or above it the box is filled again from self._widgets
link_precedence(s, w, new) ==
    IF new = None THEN [s EXCEPT !.raised = TRUE]
    ELSE IF new < s.display_threshold /\ WId(w.p, w.wid) \in Range(s.box)
    THEN [s EXCEPT !.box = SelectSeq(s.box, LAMBDA o : o # WId(w.p, w.wid))]
    ELSE IF new >= s.display_threshold
    THEN refill(s, SelectSeq((IF show_name THEN <<"name">> ELSE <<>>)
                                 \o _ordered_params(s.precedence, s.parameters),
                             LAMBDA k : k = "name"
                                        \/ shown(s.precedence, s.display_threshold, k)))
    ELSE s

\* a nested Param pane in the expansion layout, for the object obj that
\* parameter p had as its value
Pane(p, obj) == [p |-> p, obj |-> obj]

\* the positions of the expansion layout holding a pane for object (p, obj)
existing(s, p, obj) == {i \in 1..Len(s.nested) : s.nested[i] = Pane(p, obj)}

\* the expansion layout without its first pane for object (p, obj)
without_pane(s, p, obj) ==
    [i \in 1..(Len(s.nested) - 1) |->
        IF i < CHOOSE j \in existing(s, p, obj) : \A k \in existing(s, p, obj) : j <= k
        THEN s.nested[i] ELSE s.nested[i + 1]]

\* the expansion layout with its first pane for (p, obj) replaced by one
\* for (p, new)
with_pane(s, p, obj, new) ==
    [i \in 1..Len(s.nested) |->
        IF i = CHOOSE j \in existing(s, p, obj) : \A k \in existing(s, p, obj) : j <= k
        THEN Pane(p, new) ELSE s.nested[i]]

\* update_pane of _link_subobjects, the toggle: the toggle the closure
\* reads is disabled unless the new value is a parameterized object; a
\* closure of an earlier tree reads a toggle that is no longer shown
update_toggle(s, w, v) ==
    IF IsCurrent(s, w.p, w.wid) /\ s.held # ""
    THEN [s EXCEPT !.toggles[s.held].disabled = ~is_parameterized(w.p, v)]
    ELSE s

\* update_pane of _link_subobjects, the layout: the pane of the old value
\* is replaced by one for a new parameterized value, removed otherwise
update_layout(s, w, v) ==
    IF existing(s, w.p, s.old[w.p]) = {} THEN s
    ELSE IF is_parameterized(w.p, v)
    THEN [s EXCEPT !.nested = with_pane(s, w.p, s.old[w.p], v)]
    ELSE [s EXCEPT !.nested = without_pane(s, w.p, s.old[w.p])]

\* update_pane(change) of _link_subobjects, subscribed to the selector
update_pane(s, w, v) == update_layout(update_toggle(s, w, v), w, v)

\* toggle_pane(change) of _link_subobjects, subscribed to the toggle: on, a
\* pane for the parameter's value is appended unless there is one; off,
\* the pane for the parameter's value is removed
toggle_pane(s, w, v) ==
    IF existing(s, w.p, s.value[w.p]) # {}
    THEN IF v = 0 THEN [s EXCEPT !.nested = without_pane(s, w.p, s.value[w.p])] ELSE s
    ELSE IF v # 0 THEN [s EXCEPT !.nested = Append(@, Pane(w.p, s.value[w.p]))] ELSE s

\* link, the Action branch: the closure's watcher of the clicks is
\* unwatched and a new action, calling the new callable, is watched
replace_action(s, w, v) ==
    [s EXCEPT !.watchers =
        SelectSeq(@, LAMBDA x : ~(x.fn = "action" /\ x.p = w.p /\ x.wid = w.wid))
        \o <<ActionWatcher(w.p, w.wid, v)>>]

\* action(change) of Param.widget and of link: the callable the closure
\* holds is called with the object
action(s, w) == [s EXCEPT !.called = Append(@, w.arg)]

\* one step of the object's own watcher of a: it assigns parameter p
\* ("value"), an attribute what of parameter p ("meta") or the precedence
\* of p ("precedence")
Step(do, p, what) == [do |-> do, p |-> p, what |-> what]

\* the object has no watcher of its own
NoReaction == <<>>

\* history: link was called for w; applied tells whether it passed the
\* change on, engaged whether the guard was engaged, during whether a
\* Control -> Object write was in flight
logged(s, w, applied) ==
    [s EXCEPT !.links = @ \cup {[p |-> w.p, what |-> w.what, engaged |-> s._updating,
                                 during |-> s.inflight # {}, applied |-> applied]}]

\* history: link writes the value to the widget of a pair whose
\* Control -> Object write is in flight
crossing(s, w) ==
    IF w.p \in s.inflight /\ (IsCurrent(s, w.p, w.wid) \/ IsInstance(s, w.p, w.wid))
    THEN [s EXCEPT !.crossed = @ \cup {w.p}]
    ELSE s

\* a link that leaves a change of an attribute alone while the guard is
\* engaged
link_meta_skips_engaged(s) == s._updating

\* link, the branches for constant, objects, bounds, step, label: none
\* tests the guard
link_meta_skips(s) == FALSE

\* link's widget.set_param(**updates) for an attribute: the widget of the
\* closure shows the parameter's attribute
meta_applied(s, w) ==
    IF IsCurrent(s, w.p, w.wid) \/ IsInstance(s, w.p, w.wid)
    THEN [s EXCEPT !.wmeta[w.p][w.what] = s.meta[w.p][w.what]]
    ELSE s

RECURSIVE call_watchers(_, _, _, _)
RECURSIVE object_setattr(_, _, _)
RECURSIVE react_steps(_, _, _, _)
RECURSIVE link(_, _, _)
RECURSIVE link_widget(_, _, _)
RECURSIVE object_set_param(_, _, _)
RECURSIVE widget_set_param(_, _, _)

\* param calls the subscribers ws[i..] of a change to v in the order they
\* subscribed; an exception of one ends the delivery
call_watchers(s, ws, i, v) ==
    IF i > Len(ws) \/ s.raised THEN s
    ELSE LET w == ws[i]
             t == CASE w.fn = "link"        -> link(s, w, v)
                    [] w.fn = "link_widget" -> link_widget(s, w, v)
                    [] w.fn = "toggle_pane" -> toggle_pane(s, w, v)
                    [] w.fn = "action"      -> action(s, w)
                    [] OTHER                -> update_pane(s, w, v)
         IN  call_watchers(t, ws, i + 1, v)

\* a link_widget that catches the ValueError: nothing reaches the caller
set_param_error_caught(p, v) == FALSE

\* self.object.set_param(p=v) raises ValueError out of the parameter's
\* validation, and nothing in link_widget catches it
set_param_raises(p, v) == ~Accepts(p, v)

\* self.object.set_param(p=v), called by link_widget: validation raises for
\* a value the parameter does not accept; subscribers hear of a change only
\* the object's own watcher of a, declared with the class and so called
\* before the pane's: a has become v
\* the object's attribute what of parameter p is assigned v
object_set_meta(s, p, what, v) ==
    IF s.meta[p][what] = v THEN s
    ELSE call_watchers([s EXCEPT !.meta[p][what] = v],
                       Subscribed(s, ObjId, p, what), 1, v)

\* the object's precedence of parameter p is assigned v
object_set_precedence(s, p, v) ==
    IF s.precedence[p] = v THEN s
    ELSE call_watchers([s EXCEPT !.precedence[p] = v],
                       Subscribed(s, ObjId, p, "precedence"), 1, v)

\* one step of the object's own watcher, a having become v
react_step(s, st, v) ==
    CASE st.do = "value" ->
            object_setattr(s, st.p, IF ptype[st.p] = "Boolean" /\ v # 0 THEN 1 ELSE v)
      [] st.do = "meta" -> object_set_meta(s, st.p, st.what, IF v = 0 THEN 0 ELSE 1)
      [] OTHER -> object_set_precedence(s, st.p, v)

react_steps(s, sts, i, v) ==
    IF i > Len(sts) \/ s.raised THEN s
    ELSE react_steps(react_step(s, sts[i], v), sts, i + 1, v)

react(s, p, v) == IF p = "a" THEN react_steps(s, s.reaction, 1, v) ELSE s

\* the object's parameter p is assigned v: its watchers are called, the
\* object's own first
object_setattr(s, p, v) ==
    IF s.value[p] = v THEN s
    ELSE call_watchers(react([s EXCEPT !.value[p] = v], p, v),
                       Subscribed(s, ObjId, p, "value"), 1, v)

object_set_param(s, p, v) ==
    LET s1 == [s EXCEPT !.objCalls = @ + 1]
    IN  IF set_param_raises(p, v) THEN [s1 EXCEPT !.raised = TRUE]
        ELSE IF s.value[p] = v THEN s1
        ELSE call_watchers(react([s1 EXCEPT !.value[p] = v,
                                            !.objEv = Append(@, <<p, v>>)], p, v),
                           Subscribed(s, ObjId, p, "value"), 1, v)

\* widget.set_param(value=v) on the widget of w's closure, called by link;
\* a widget of an earlier tree has link_widget as its only subscriber
widget_set_param(s, w, v) ==
    IF ~(IsCurrent(s, w.p, w.wid) \/ IsInstance(s, w.p, w.wid))
    THEN s
    ELSE LET s1 == [s EXCEPT !.ctlCalls = @ + 1]
         IN  IF WidgetValue(s, w.p, w.wid) = v THEN s1
             ELSE call_watchers(
                      [SetWidgetValue(s1, w.p, w.wid, v)
                          EXCEPT !.ctlEv = Append(@, <<w.p, v>>),
                                 !.old[w.p] = WidgetValue(s, w.p, w.wid)],
                      Subscribed(s, WId(w.p, w.wid), w.p, "value"), 1, v)

\* link_widget(change) of Param.widget: Control -> Object
link_widget(s, w, v) ==
    IF link_widget_skips(s) THEN s
    ELSE [link_widget_finally(
              object_set_param([s EXCEPT !._updating = TRUE, !.inflight = @ \cup {w.p}],
                               w.p, v))
            EXCEPT !.inflight = @ \ {w.p}]

\* link(change) of Param.widget: Object -> Control
link(s, w, v) ==
    CASE w.what = "precedence" -> link_precedence(logged(s, w, TRUE), w, v)
      [] w.what = "value" ->
            IF link_skips(s) THEN logged(s, w, FALSE)
            ELSE IF ptype[w.p] = "Action" THEN replace_action(logged(s, w, TRUE), w, v)
            ELSE link_finally(widget_set_param(
                     [crossing(logged(s, w, TRUE), w) EXCEPT !._updating = TRUE], w, v))
      [] OTHER ->
            IF link_meta_skips(s) THEN logged(s, w, FALSE)
            ELSE link_finally(meta_applied([logged(s, w, TRUE) EXCEPT !._updating = TRUE], w))

\* ------------------------------------------------------------ operations
Precedences == {None} \cup 0..MaxPrec

\* the override dictionaries a caller supplies in build n: at most
\* MaxOverrides keys; a ready-made instance is a new widget showing the
\* parameter's current value
Overrides(vals, n) ==
    UNION {{[p \in Params |->
                IF p \notin S THEN Absent
                ELSE IF k[p] = "instance"
                     THEN [kind |-> "instance", wid |-> 0 - n, value |-> vals[p]]
                     ELSE [kind |-> k[p], wid |-> 0, value |-> 0]] :
             k \in [S -> OvKinds]} :
           S \in {T \in SUBSET Scenario : Cardinality(T) <= MaxOverrides}}

\* the names the widget box shows, in order
Displayed(b) == [i \in 1..Len(b) |-> b[i].p]

\* what an observer sees of a tree: names, widget types, order, values
Sig(ws) == [i \in 1..Len(ws) |-> [p |-> ws[i].p, wtype |-> ws[i].wtype, value |-> ws[i].value]]

BuildOps == {"init", "rebuild", "threshold", "parameters", "widgets"}

NoObs == [raised |-> FALSE, reinserted |-> FALSE,
          objEv |-> <<>>, ctlEv |-> <<>>, objCalls |-> 0, ctlCalls |-> 0,
          called |-> <<>>, live |-> <<>>, links |-> {}, crossed |-> {}]

\* the parameters that are expanded: the toggle is on and the expansion
\* layout holds a pane for the parameter's value
Open ==
    {p \in Params : toggles[p].value /\ \E i \in 1..Len(nested) : nested[i] = Pane(p, value[p])}

NoThr == [phase |-> "none", t1 |-> 0, shown |-> <<>>]

\* the state after the handlers have run, and the record of the operation
Becomes(s, op) ==
    /\ precedence' = s.precedence
    /\ value' = s.value
    /\ display_threshold' = s.display_threshold
    /\ parameters' = s.parameters
    /\ widgets' = s.widgets
    /\ _updating' = s._updating
    /\ _widgets' = s._widgets
    /\ box' = s.box
    /\ watchers' = s.watchers
    /\ nbuilds' = s.nbuilds
    /\ toggles' = s.toggles
    /\ held' = s.held
    /\ nested' = s.nested
    /\ _expand_layout' = s._expand_layout
    /\ wasOpen' = Open
    /\ UNCHANGED <<expand_layout, init_error>>
    /\ UNCHANGED rvars
    /\ UNCHANGED fvars
    /\ lastOp' = op
    /\ obs' = [raised |-> s.raised, reinserted |-> s.reinserted,
               objEv |-> s.objEv, ctlEv |-> s.ctlEv,
               objCalls |-> s.objCalls, ctlCalls |-> s.ctlCalls,
               called |-> s.called, live |-> s.live,
               links |-> s.links, crossed |-> s.crossed]
    /\ meta' = s.meta
    /\ wmeta' = s.wmeta
    /\ show_labels' = s.show_labels
    /\ reaction' = s.reaction

Op(kind, p, v) == [kind |-> kind, p |-> p, v |-> v, oldParam |-> 0, oldCtl |-> 0, linked |-> FALSE]

\* the first state: s after the constructor's build, the overrides ovs as
\* they were supplied
Starts(s, ovs) ==
    /\ precedence = s.precedence
    /\ value = s.value
    /\ display_threshold = s.display_threshold
    /\ parameters = s.parameters
    /\ widgets = s.widgets
    /\ _updating = FALSE
    /\ _widgets = s._widgets
    /\ box = s.box
    /\ watchers = s.watchers
    /\ nbuilds = s.nbuilds
    /\ toggles = s.toggles
    /\ held = s.held
    /\ nested = s.nested
    /\ _expand_layout = s._expand_layout
    /\ wasOpen = {}
    /\ reaction = s.reaction
    /\ meta = s.meta
    /\ wmeta = s.wmeta
    /\ show_labels = s.show_labels
    /\ supplied = [p \in Params |-> ovs[p].kind]
    /\ lastOp = Op("init", "", 0)
    /\ obs = NoObs
    /\ prevBuild = <<>>
    /\ thrHist = NoThr

\* the values given as expand_layout: the class of the widget box, another
\* layout class, a layout instance, a class that is no layout, a value that
\* is no class
Layouts == {"Column", "Row", "instance", "dict", "string"}

\* isinstance(layout, Panel)
is_panel_instance(l) == l = "instance"

\* isinstance(layout, type)
is_type(l) == l \in {"Column", "Row", "dict"}

\* issubclass(layout, Panel)
is_panel_type(l) == l \in {"Column", "Row"}

\* Param.__init__, the layout: the exception raised; isinstance(box, layout)
\* raises TypeError for a layout that is no class
init_raises(l) ==
    IF is_panel_instance(l) THEN "none"
    ELSE IF ~is_type(l) THEN "TypeError"
    ELSE IF l = "Column" THEN "none"
    ELSE IF is_panel_type(l) THEN "none"
    ELSE "ValueError"

\* Param.__init__, the layout: self._expand_layout
init_layout(l) ==
    IF is_panel_instance(l) THEN "external"
    ELSE IF ~is_type(l) THEN "none"
    ELSE IF l = "Column" THEN "box"
    ELSE IF is_panel_type(l) THEN "own"
    ELSE "none"

\* Param.__init__: the pane is constructed for the object, with a threshold,
\* a whitelist and overrides, and builds its tree
Unbuilt(l, r, prec, thr, ps, ovs) ==
    [precedence |-> prec, value |-> [p \in Params |-> 0],
     display_threshold |-> thr, parameters |-> ps,
     widgets |-> ovs, _updating |-> FALSE, _widgets |-> <<>>,
     box |-> <<>>, watchers |-> <<>>,
     nbuilds |-> 0,
     toggles |-> [p \in Params |-> [value |-> FALSE, disabled |-> TRUE]],
     held |-> "", nested |-> <<>>, _expand_layout |-> init_layout(l),
     raised |-> FALSE, reinserted |-> FALSE,
     objEv |-> <<>>, ctlEv |-> <<>>, objCalls |-> 0, ctlCalls |-> 0,
     called |-> <<>>, live |-> <<>>,
     inflight |-> {}, links |-> {}, crossed |-> {},
     reaction |-> r,
     show_labels |-> TRUE,
     meta |-> [p \in Params |-> [w \in Whats |-> 0]],
     wmeta |-> [p \in Params |-> [w \in Whats |-> 0]],
     old |-> [p \in Params |-> 0]]

\* Param.__init__ with expand_layout l for an object whose own watcher does
\* r: the build runs unless the constructor has raised before it
BuiltWith(l, r, prec, thr, ps, ovs) ==
    /\ Starts(IF init_raises(l) = "none"
              THEN _update_widgets(Unbuilt(l, r, prec, thr, ps, ovs))
              ELSE Unbuilt(l, r, prec, thr, ps, ovs),
              ovs)
    /\ expand_layout = l
    /\ init_error = init_raises(l)

\* the same with the default expand_layout
BuiltFor(r, prec, thr, ps, ovs) == BuiltWith("Column", r, prec, thr, ps, ovs)

\* the same for an object without a watcher of its own
Built(prec, thr, ps, ovs) == BuiltFor(NoReaction, prec, thr, ps, ovs)

\* no reactive wrapper has been constructed
NoUpd == [op |-> "none", name |-> "", evals |-> 0, inplace |-> FALSE,
          before |-> <<>>, out |-> <<>>, copied |-> {}]

NoWrapper ==
    /\ dinfo = [kind |-> "none", args |-> <<>>, kw |-> <<>>]
    /\ ovalue = [x |-> 0, y |-> 0, sub |-> 0, z |-> <<>>]
    /\ deps = <<>>
    /\ wrapper_callbacks = <<>>
    /\ _pane = <<>>
    /\ _inner_layout = <<>>
    /\ upd = NoUpd

\* 'start' not in kw: the key is absent
NotInKw == 0 - 2

\* Param.widget has not been called on its own
NoControl ==
    [p |-> "", lo |-> None, hi |-> None, step |-> None,
     kind |-> "absent", ovcls |-> "",
     ov |-> [start |-> NotInKw, end |-> NotInKw, step |-> NotInKw],
     done |-> FALSE, raised |-> FALSE, cls |-> "",
     kw |-> [start |-> NotInKw, end |-> NotInKw, step |-> NotInKw],
     step_set |-> FALSE]

\* Param.widget_type has not been called on its own
NoResult == [po |-> [name |-> "", type |-> "", path |-> FALSE], done |-> FALSE, out |-> ""]

\* ParamMethod._eval_function has not been called on its own
NoEval ==
    [d |-> [kind |-> "none", args |-> <<>>, kw |-> <<>>],
     vals |-> [x |-> 0, y |-> 0], captured |-> [x |-> 0, y |-> 0],
     called |-> FALSE, args |-> <<>>, kwargs |-> <<>>]

NoCall == ctl = NoControl /\ res = NoResult /\ ev = NoEval

\* a Param pane constructed on its own
Constructed(prec, thr, ps, ovs) == Built(prec, thr, ps, ovs) /\ NoWrapper /\ NoCall

\* the object declares no precedence; the pane is constructed with the
\* default threshold and whitelist and with any overrides
Init ==
    \E ovs \in Overrides([p \in Params |-> 0], 1) :
        Constructed([p \in Params |-> None], 0, Scenario, ovs)

\* the same, constructed without overrides
InitPlain == Constructed([p \in Params |-> None], 0, Scenario, [p \in Params |-> Absent])

\* the same, constructed with any threshold
InitUndo ==
    \E thr \in 0..MaxPrec :
        Constructed([p \in Params |-> None], thr, Scenario, [p \in Params |-> Absent])

\* the model stops rebuilding after k rebuilds
CanRebuild(k) == nbuilds <= k

\* the user (or code) sets the value of p's widget to v
WriteControl(p, v) ==
    /\ wmeta[p]["constant"] = 0
    /\ \E e \in Entries(State, p) :
          /\ v \in CtlDomain(e.wtype)
          /\ v # e.value
          /\ Becomes(call_watchers([SetWidgetValue(State, p, e.wid, v)
                                       EXCEPT !.old[p] = e.value],
                                   Subscribed(State, WId(p, e.wid), p, "value"), 1, v),
                     [kind |-> "control", p |-> p, v |-> v, oldParam |-> value[p],
                      oldCtl |-> e.value, linked |-> e.wtype # "Toggle"])
    /\ prevBuild' = <<>>
    /\ thrHist' = NoThr
    /\ UNCHANGED supplied

\* code sets the object's parameter p to v
WriteParam(p, v) ==
    /\ meta[p]["constant"] = 0
    /\ Accepts(p, v)
    /\ v # value[p]
    /\ Becomes(object_setattr(State, p, v),
               [kind |-> "param", p |-> p, v |-> v, oldParam |-> value[p],
                oldCtl |-> IF Entries(State, p) = {} THEN 0
                           ELSE (CHOOSE e \in Entries(State, p) : TRUE).value,
                linked |-> \E e \in Entries(State, p) : e.wtype # "Toggle"])
    /\ prevBuild' = <<>>
    /\ thrHist' = NoThr
    /\ UNCHANGED supplied

\* code sets attribute what of the object's parameter p to v
SetMeta(p, what, v) ==
    /\ v # meta[p][what]
    /\ Becomes(object_set_meta(State, p, what, v), Op(what, p, v))
    /\ prevBuild' = <<>>
    /\ thrHist' = NoThr
    /\ UNCHANGED supplied

\* the user clicks the Button of the Action parameter p
Click(p) ==
    /\ \E e \in Entries(State, p) :
          /\ e.wtype = "Button"
          /\ Becomes(call_watchers(State, Subscribed(State, WId(p, e.wid), p, "clicks"), 1, 0),
                     Op("click", p, 0))
    /\ \E i \in 1..Len(box) : box[i].p = p
    /\ prevBuild' = <<>>
    /\ thrHist' = NoThr
    /\ UNCHANGED supplied

\* the user switches the expand toggle of p on or off
WriteToggle(p, on) ==
    /\ \E e \in Entries(State, p) : e.row
    /\ \E i \in 1..Len(box) : box[i].p = p
    /\ ~toggles[p].disabled
    /\ toggles[p].value # on
    /\ Becomes(call_watchers([State EXCEPT !.toggles[p].value = on],
                             Subscribed(State, ToggleId(p, nbuilds), p, "value"), 1,
                             IF on THEN 1 ELSE 0),
               Op("toggle", p, IF on THEN 1 ELSE 0))
    /\ prevBuild' = <<>>
    /\ thrHist' = NoThr
    /\ UNCHANGED supplied

\* code sets object.param[p].precedence to new
SetPrecedence(p, new) ==
    /\ new # precedence[p]
    /\ Becomes(call_watchers([State EXCEPT !.precedence[p] = new],
                             Subscribed(State, ObjId, p, "precedence"), 1, new),
               Op("precedence", p, new))
    /\ prevBuild' = <<>>
    /\ thrHist' = NoThr
    /\ UNCHANGED supplied

\* pane.display_threshold = t: _update_widgets is its subscriber
SetThreshold(t) ==
    /\ t # display_threshold
    /\ Becomes(_update_widgets([State EXCEPT !.display_threshold = t]),
               Op("threshold", "", t))
    /\ prevBuild' = <<>>
    /\ thrHist' = IF t > display_threshold
                  THEN [phase |-> "raised", t1 |-> display_threshold, shown |-> Displayed(box)]
                  ELSE IF thrHist.phase = "raised" /\ t = thrHist.t1
                  THEN [thrHist EXCEPT !.phase = "lowered"]
                  ELSE NoThr
    /\ UNCHANGED supplied

\* pane.parameters = ps, a whitelist that is not empty
SetParameters(ps) ==
    /\ ps # {} /\ ps # parameters
    /\ Becomes(_update_widgets([State EXCEPT !.parameters = ps]),
               Op("parameters", "", 0))
    /\ prevBuild' = <<>>
    /\ thrHist' = NoThr
    /\ UNCHANGED supplied

\* pane.widgets = ovs, a new dictionary of overrides
SetWidgets(ovs) ==
    /\ ovs # widgets
    /\ Becomes(_update_widgets([State EXCEPT !.widgets = ovs]),
               Op("widgets", "", 0))
    /\ supplied' = [p \in Params |-> ovs[p].kind]
    /\ prevBuild' = <<>>
    /\ thrHist' = NoThr

\* _update_widgets runs with nothing changed (as pane.param.trigger does);
\* the tree before it is remembered when a rebuild was the last operation
Rebuild ==
    /\ Becomes(_update_widgets(State), Op("rebuild", "", 0))
    /\ prevBuild' = IF lastOp.kind \in BuildOps \ {"init"} THEN Sig(_widgets) ELSE <<>>
    /\ thrHist' = NoThr
    /\ UNCHANGED supplied

\* the tree: precedences, threshold, whitelist and rebuilds
NextTree ==
    \/ \E p \in Scenario, new \in Precedences : SetPrecedence(p, new)
    \/ CanRebuild(MaxRebuilds) /\ \E t \in 0..MaxPrec : SetThreshold(t)
    \/ CanRebuild(MaxRebuilds) /\ \E ps \in SUBSET Scenario : SetParameters(ps)
    \/ CanRebuild(MaxRebuilds) /\ Rebuild

SpecTree == InitPlain /\ [][NextTree]_vars

\* the order of the tree: precedences, threshold and rebuilds, the whitelist
\* kept as it was constructed
NextOrder ==
    \/ \E p \in Scenario, new \in Precedences : SetPrecedence(p, new)
    \/ CanRebuild(MaxRebuilds) /\ \E t \in 0..MaxPrec : SetThreshold(t)
    \/ CanRebuild(MaxRebuilds) /\ Rebuild

SpecOrder == InitPlain /\ [][NextOrder]_vars

\* the tree under any threshold and with one rebuild more, for a threshold
\* raised and lowered again
NextUndo ==
    \/ \E p \in Scenario, new \in Precedences : SetPrecedence(p, new)
    \/ CanRebuild(MaxRebuilds + 1) /\ \E t \in 0..(MaxPrec + 1) : SetThreshold(t)
    \/ CanRebuild(MaxRebuilds + 1) /\ Rebuild

SpecUndo == InitUndo /\ [][NextUndo]_vars

\* the links: values written on either side of a pane constructed with
\* any overrides, and rebuilds
NextLink ==
    \/ \E p \in Scenario, v \in 0..(MaxVal + 1) : WriteControl(p, v)
    \/ \E p \in Scenario, v \in 0..MaxVal : WriteParam(p, v)
    \/ CanRebuild(MaxRebuilds) /\ Rebuild

SpecLink == Init /\ [][NextLink]_vars

\* the builds: everything that makes _update_widgets run
NextBuild ==
    \/ CanRebuild(MaxRebuilds + 1) /\ \E t \in 0..MaxPrec : SetThreshold(t)
    \/ CanRebuild(MaxRebuilds + 1) /\ \E ps \in SUBSET Scenario : SetParameters(ps)
    \/ CanRebuild(MaxRebuilds + 1) /\ \E ovs \in Overrides(value, nbuilds + 1) : SetWidgets(ovs)
    \/ CanRebuild(MaxRebuilds + 1) /\ Rebuild

SpecBuild == Init /\ [][NextBuild]_vars

\* the parameters of the expansion scenario: the two object selectors
Selectors == {"c", "d"}

\* a pane constructed for the two object selectors, without overrides
InitExpand == Constructed([p \in Params |-> None], 0, Selectors, [p \in Params |-> Absent])

\* the expansion: toggles switched, values written on either side, rebuilds
NextExpand ==
    \/ \E p \in Selectors, on \in BOOLEAN : WriteToggle(p, on)
    \/ \E p \in Selectors, v \in 0..MaxVal : WriteControl(p, v)
    \/ \E p \in Selectors, v \in 0..MaxVal : WriteParam(p, v)
    \/ CanRebuild(MaxRebuilds) /\ Rebuild

SpecExpand == InitExpand /\ [][NextExpand]_vars

\* a pane constructed for the two object selectors with any expand_layout
InitLayout ==
    \E l \in Layouts :
        BuiltWith(l, NoReaction, [p \in Params |-> None], 0, Selectors, [p \in Params |-> Absent])
        /\ NoWrapper
        /\ NoCall

\* the expansion into any layout; a pane whose constructor raised does
\* not exist
NextLayout ==
    \/ \E p \in Selectors, on \in BOOLEAN : WriteToggle(p, on)
    \/ \E p \in Selectors, v \in 0..MaxVal : WriteControl(p, v)
    \/ \E p \in Selectors, v \in 0..MaxVal : WriteParam(p, v)
    \/ init_error = "none" /\ CanRebuild(MaxRebuilds) /\ Rebuild

SpecLayout == InitLayout /\ [][NextLayout]_vars

\* what the object's own watcher of a does in the guard scenario: nothing;
\* it assigns b; it assigns an attribute of a, b or c or the precedence of
\* b; it assigns b and then b's label, or a's label and then b
Reactions ==
    {NoReaction,
     <<Step("value", "b", "value")>>,
     <<Step("meta", "a", "label")>>, <<Step("meta", "a", "bounds")>>,
     <<Step("meta", "b", "constant")>>, <<Step("meta", "c", "objects")>>,
     <<Step("precedence", "b", "precedence")>>,
     <<Step("value", "b", "value"), Step("meta", "b", "label")>>,
     <<Step("meta", "a", "label"), Step("value", "b", "value")>>}

\* a pane constructed with any threshold for an object with any of these
\* watchers
InitGuard ==
    \E r \in Reactions, thr \in 0..MaxPrec :
        BuiltWith("Column", r, [p \in Params |-> None], thr, Scenario,
                  [p \in Params |-> Absent])
        /\ NoWrapper
        /\ NoCall

\* the guard: values written on either side, attributes assigned, rebuilds
NextGuard ==
    \/ \E p \in Scenario, v \in 0..MaxVal : WriteControl(p, v)
    \/ \E p \in Scenario, v \in 0..MaxVal : WriteParam(p, v)
    \/ \E v \in {0, 1} : SetMeta("a", "label", v)
    \/ CanRebuild(MaxRebuilds) /\ Rebuild

SpecGuard == InitGuard /\ [][NextGuard]_vars

\* the parameters of the action scenario
Actions == {"a", "act"}

\* a pane constructed for a Number and an Action of an object with or
\* without a watcher of its own
InitAction ==
    \E r \in {NoReaction, <<Step("value", "act", "value")>>} :
        BuiltFor(r, [p \in Params |-> None], 0, Actions, [p \in Params |-> Absent])
        /\ NoWrapper
        /\ NoCall

\* the actions: the Button clicked, the callable replaced, the Number
\* written on either side, rebuilds
NextAction ==
    \/ Click("act")
    \/ \E v \in 0..MaxVal : WriteParam("act", v)
    \/ \E v \in 0..MaxVal : WriteControl("a", v)
    \/ \E v \in 0..MaxVal : WriteParam("a", v)
    \/ CanRebuild(MaxRebuilds) /\ Rebuild

SpecAction == InitAction /\ [][NextAction]_vars

\* pane.show_labels = b: _update_widgets is its subscriber
SetShowLabels(b) ==
    /\ b # show_labels
    /\ Becomes(_update_widgets([State EXCEPT !.show_labels = b]),
               Op("show_labels", "", IF b THEN 1 ELSE 0))
    /\ prevBuild' = <<>>
    /\ thrHist' = NoThr
    /\ UNCHANGED supplied

\* a pane constructed for a Number and an Action with labels shown or not
InitLabels ==
    \E sl \in BOOLEAN :
        /\ Starts(_update_widgets(
                      [Unbuilt("Column", NoReaction, [p \in Params |-> None], 0, Actions,
                               [p \in Params |-> Absent])
                          EXCEPT !.show_labels = sl]),
                  [p \in Params |-> Absent])
        /\ expand_layout = "Column"
        /\ init_error = "none"
        /\ NoWrapper
        /\ NoCall

\* the labels: a label assigned, show_labels switched, the Number written,
\* rebuilds
NextLabels ==
    \/ \E p \in Actions, v \in {0, 1} : SetMeta(p, "label", v)
    \/ CanRebuild(MaxRebuilds + 1) /\ \E b \in BOOLEAN : SetShowLabels(b)
    \/ \E v \in 0..MaxVal : WriteParam("a", v)
    \/ CanRebuild(MaxRebuilds + 1) /\ Rebuild

SpecLabels == InitLabels /\ [][NextLabels]_vars

\* ------------------------------------------- the control's arguments
\* 'start' in widget_class.param and 'end' in widget_class.param
has_range(cls) == cls \in {"FloatSlider", "IntSlider"}

\* hasattr(widget_class, 'step')
has_step(cls) == cls \in {"FloatSlider", "IntSlider"}

\* Param.widget, kw.update(kw_widget): what the override dict gives for key k
kw_widget(c, k) == IF c.kind \in {"dict", "dict_type"} THEN c.ov[k] ELSE NotInKw

\* Param.widget, the class resolved: that of the parameter's type, or the
\* override's (a class, a dict's 'type', or the class of an instance)
resolved_class(c) ==
    IF c.kind \in {"absent", "dict"} THEN widget_type(pobj(c.p)) ELSE c.ovcls

\* Param.widget, kw['start'] or kw['end'] past the bounds: bound b when it
\* is set, else what the override gave
kw_bound(c, k, b) ==
    IF has_get_soft_bounds(c.p) /\ b # None THEN b ELSE kw_widget(c, k)

\* 'start' not in kw or 'end' not in kw
open_ended(c) ==
    kw_bound(c, "start", c.lo) = NotInKw \/ kw_bound(c, "end", c.hi) = NotInKw

\* issubclass(widget_class, LiteralInput) raises TypeError when
\* widget_class is an instance
issubclass_raises(c) ==
    has_get_soft_bounds(c.p) /\ open_ended(c) /\ c.kind = "instance"

\* Param.widget, the class past the bounds
final_class(c) ==
    IF has_get_soft_bounds(c.p) /\ open_ended(c) /\ resolved_class(c) # "LiteralInput"
    THEN "LiteralInput"
    ELSE resolved_class(c)

\* Param.widget, "if hasattr(widget_class, 'step') and getattr(p_obj,
\* 'step', None)"
sets_step(c) ==
    has_get_soft_bounds(c.p) /\ has_step(final_class(c)) /\ c.step # None

\* Param.widget, the keyword arguments the control is constructed with:
\* those of kw that are parameters of the class; an instance is used as it
\* is and given none
kwargs(c) ==
    [start |-> IF c.kind # "instance" /\ has_range(final_class(c))
               THEN kw_bound(c, "start", c.lo) ELSE NotInKw,
     end   |-> IF c.kind # "instance" /\ has_range(final_class(c))
               THEN kw_bound(c, "end", c.hi) ELSE NotInKw,
     step  |-> IF c.kind # "instance" /\ has_step(final_class(c))
               THEN (IF sets_step(c) THEN c.step ELSE kw_widget(c, "step"))
               ELSE NotInKw]

\* Param.widget up to the construction of the control
widget_built(c) ==
    IF issubclass_raises(c)
    THEN [c EXCEPT !.done = TRUE, !.raised = TRUE]
    ELSE [c EXCEPT !.done = TRUE, !.cls = final_class(c), !.kw = kwargs(c),
                   !.step_set = sets_step(c)]

\* the values an override dict gives for start, end and step
OvValues == {NotInKw, MaxVal + 2}

\* the parameters Param.widget is called for: a Number and a Boolean
Bounded == {"a", "b"}

\* the calls: a parameter with any soft bounds and step, and an override
\* that is absent, a class, an instance or a dict with or without a type
Calls ==
    {[NoControl EXCEPT !.p = p, !.lo = lo, !.hi = hi, !.step = st, !.kind = k,
                       !.ovcls = IF k \in {"absent", "dict"} THEN "" ELSE oc,
                       !.ov = IF k \in {"dict", "dict_type"} THEN ov
                              ELSE NoControl.ov] :
        p \in Bounded, lo \in {None, 0}, hi \in {None, MaxVal}, st \in {None, 1},
        k \in {"absent", "type", "instance", "dict", "dict_type"},
        oc \in {"IntSlider", "LiteralInput"},
        ov \in [{"start", "end", "step"} -> OvValues]}

\* a pane and a call of Param.widget about to be made
InitControl ==
    /\ Built([p \in Params |-> None], 0, Scenario, [p \in Params |-> Absent])
    /\ NoWrapper
    /\ ctl \in Calls
    /\ res = NoResult
    /\ ev = NoEval

\* Param.widget is called
BuildControl ==
    /\ ~ctl.done
    /\ ctl' = widget_built(ctl)
    /\ UNCHANGED <<pvars, rvars, res, ev>>

NextControl == BuildControl

SpecControl == InitControl /\ [][NextControl]_vars

\* ------------------------------------------------ the widget type
\* the parameter types of the descriptors: those of the object under test,
\* the base type, a subclass of Number and a subclass of Parameter without
\* a mapping of their own
PTypes ==
    {"Parameter", "Number", "Integer", "Boolean", "String", "ObjectSelector",
     "FileSelector", "Action", "Magnitude", "List"}

\* the descriptors Param.widget_type is called with
Descriptors ==
    {[name |-> n, type |-> t, path |-> pa] : n \in Params, t \in PTypes, pa \in BOOLEAN}

\* a pane and a call of Param.widget_type about to be made
InitResolve ==
    /\ Built([p \in Params |-> None], 0, Scenario, [p \in Params |-> Absent])
    /\ NoWrapper
    /\ ctl = NoControl
    /\ \E po \in Descriptors : res = [NoResult EXCEPT !.po = po]
    /\ ev = NoEval

\* Param.widget_type(pobj) is called
Resolve ==
    /\ ~res.done
    /\ res' = [res EXCEPT !.done = TRUE, !.out = widget_type(res.po)]
    /\ UNCHANGED <<pvars, rvars, ctl, ev>>

NextResolve == Resolve

SpecResolve == InitResolve /\ [][NextResolve]_vars

\* ------------------------------------------- the reactive wrappers
\* the owner O of the callable is instance 0; its parameter sub holds 0 (not
\* a parameterized object) or one of the sub-objects, each with a parameter z
SubObjects == {1, 2}

\* the values a Number parameter of O or of a sub-object takes
Numbers == 0..MaxVal

\* a dependency as param resolves it: parameter name of instance inst
PInfo(inst, name) == [inst |-> inst, name |-> name, what |-> "value"]

\* the declarations: a function depending on parameters of O positionally
\* (args) and by keyword (kw), a method depending on specs of its owner
Function(args, kw) == [kind |-> "ParamFunction", args |-> args, kw |-> kw]

Method(args) == [kind |-> "ParamMethod", args |-> args, kw |-> <<>>]

Decls ==
    {Function(<<"x">>, <<>>), Function(<<>>, <<"x">>), Function(<<"x">>, <<"x">>),
     Function(<<"x", "y">>, <<>>), Function(<<"y">>, <<"x">>),
     Method(<<"x">>), Method(<<"x", "y">>), Method(<<"x", "sub", "sub.z">>)}

\* what the callable returns: a Reactive object (a widget of class cls, with
\* parameters name, width and value, with or without registered links) or a
\* string (value), which a Markdown pane renders
Outputs ==
    [cls : {"TextInput", "Spinner"}, links : BOOLEAN, name : {1, 2},
     width : {0, 1}, value : {0, 1}]
    \cup [cls : {"str"}, links : {FALSE}, name : {0}, width : {0}, value : {0, 1}]

\* isinstance(new_object, Reactive)
is_reactive(out) == out.cls # "str"

\* get_pane_type(new_object): a Viewable is its own pane
get_pane_type(out) == IF is_reactive(out) THEN out.cls ELSE "Markdown"

\* Pane(new_object, **kwargs) as object number id: a Viewable is returned
\* as it is, a string is wrapped in a pane with the wrapper's parameters
Rendered(out, id) ==
    IF is_reactive(out)
    THEN [id |-> id, cls |-> out.cls, name |-> out.name, width |-> out.width,
          value |-> out.value]
    ELSE [id |-> id, cls |-> "Markdown", name |-> 0, width |-> 0, value |-> out.value]

\* the wrapper and the objects as one record, for the handlers to work on
Wrapper ==
    [dinfo |-> dinfo, ovalue |-> ovalue, deps |-> deps,
     callbacks |-> wrapper_callbacks, _pane |-> _pane,
     _inner_layout |-> _inner_layout, upd |-> upd]

\* a copy that copies every parameter but the name
new_params_all(pane, out) == {"width", "value"}

\* _update_pane: the parameters of the new output other than the name whose
\* value is not identical to the rendered wrapper's
new_params(pane, out) == {k \in {"width", "value"} : out[k] # pane[k]}

\* _update_pane: the test for the update in place
in_place(pane, out) == pane.cls = get_pane_type(out) /\ ~out.links

\* _update_pane, in place: a Reactive output's differing parameters are
\* set on the rendered wrapper, another output becomes its object
merged(pane, out, ks) ==
    IF is_reactive(out)
    THEN [pane EXCEPT !.width = IF "width" \in ks THEN out.width ELSE @,
                      !.value = IF "value" \in ks THEN out.value ELSE @]
    ELSE [pane EXCEPT !.value = out.value]

\* ParamMethod._update_pane with out the result of _eval_function
_update_pane(w, out) ==
    IF in_place(w._pane, out)
    THEN [w EXCEPT !._pane = merged(@, out, new_params(@, out)),
                   !.upd = [@ EXCEPT !.evals = @ + 1, !.inplace = TRUE,
                                     !.before = w._pane, !.out = out,
                                     !.copied = IF is_reactive(out)
                                                THEN new_params(w._pane, out)
                                                ELSE {"object"}]]
    ELSE [w EXCEPT !._pane = Rendered(out, (w._pane.id + 1) % 3),
                   !._inner_layout = [@ EXCEPT ![1] = (w._pane.id + 1) % 3],
                   !.upd = [@ EXCEPT !.evals = @ + 1, !.inplace = FALSE,
                                     !.before = w._pane, !.out = out,
                                     !.copied = {}]]

\* param's resolution of one spec of a method: a parameter of the owner,
\* or parameter z of the parameterized object that sub holds
spec_to_obj(ov, spec) ==
    IF spec = "sub.z"
    THEN (IF ov.sub \in SubObjects THEN <<PInfo(ov.sub, "z")>> ELSE <<>>)
    ELSE <<PInfo(0, spec)>>

\* parameterized.param.params_depended_on(method) for the specs declared
RECURSIVE params_depended_on(_, _)
params_depended_on(ov, specs) ==
    IF specs = <<>> THEN <<>>
    ELSE spec_to_obj(ov, Head(specs)) \o params_depended_on(ov, Tail(specs))

\* one listener: the names of instance inst it watches and its handler
Listener(inst, names, fn) == [inst |-> inst, names |-> names, fn |-> fn]

\* full_groupby by (owner, what) and one watch per group, in the order the
\* owners first occur in ps
RECURSIVE grouped(_)
grouped(ps) ==
    IF ps = <<>> THEN <<>>
    ELSE <<Listener(Head(ps).inst,
                    {ps[i].name : i \in {j \in 1..Len(ps) : ps[j].inst = Head(ps).inst}},
                    "update_pane")>>
         \o grouped(SelectSeq(ps, LAMBDA q : q.inst # Head(ps).inst))

\* ParamFunction._link_object_params: one watch per declared dependency,
\* the positional ones and then the keyword ones
function_listeners(d) ==
    [i \in 1..Len(d.args \o d.kw) |-> Listener(0, {(d.args \o d.kw)[i]}, "_update_pane")]

\* update_pane of ParamMethod, the listeners after the dependencies were
\* recomputed as new_deps: those of the dependencies gone are unwatched,
\* the dependencies not yet listened to are watched
relinked(w, new_deps) ==
    [w EXCEPT
       !.callbacks =
          SelectSeq(@, LAMBDA cb :
              ~\E i \in 1..Len(w.deps) :
                  /\ \A j \in 1..Len(new_deps) : new_deps[j] # w.deps[i]
                  /\ cb.inst = w.deps[i].inst
                  /\ w.deps[i].name \in cb.names)
          \o grouped(SelectSeq(new_deps, LAMBDA q :
                         \A i \in 1..Len(w.deps) : w.deps[i] # q)),
       !.deps =
          SelectSeq(@, LAMBDA q : \E j \in 1..Len(new_deps) : new_deps[j] = q)
          \o SelectSeq(new_deps, LAMBDA q : \A i \in 1..Len(w.deps) : w.deps[i] # q)]

\* update_pane(*events) of ParamMethod._link_object_params: the dependencies
\* are recomputed if the event brings a parameterized object
method_update_pane(w, new, out) ==
    _update_pane(IF new \in SubObjects
                 THEN relinked(w, params_depended_on(w.ovalue, w.dinfo.args))
                 ELSE w,
                 out)

\* param calls the listeners ls[i..] of a change, in the order they were
\* registered; is_obj tells whether the new value is an object, outs are
\* the results the callable returns, evaluation by evaluation
RECURSIVE notify(_, _, _, _, _)
notify(w, ls, i, new, outs) ==
    IF i > Len(ls) THEN w
    ELSE notify(IF ls[i].fn = "update_pane"
                THEN method_update_pane(w, new, outs[i])
                ELSE _update_pane(w, outs[i]),
                ls, i + 1, new, outs)

\* the listeners of the wrapper on parameter name of instance inst
Listening(w, inst, name) ==
    SelectSeq(w.callbacks, LAMBDA cb : cb.inst = inst /\ name \in cb.names)

\* the state after the handlers have run
Reacts(w) ==
    /\ dinfo' = w.dinfo
    /\ ovalue' = w.ovalue
    /\ deps' = w.deps
    /\ wrapper_callbacks' = w.callbacks
    /\ _pane' = w._pane
    /\ _inner_layout' = w._inner_layout
    /\ upd' = w.upd
    /\ UNCHANGED pvars
    /\ UNCHANGED fvars

\* the record of an operation that has not been reacted to yet
Sets(name) == [NoUpd EXCEPT !.op = "set", !.name = name]

\* ParamMethod.__init__ / ParamFunction: the callable declared as d is
\* evaluated (out), rendered and linked
Wrapped(d, ov, out) ==
    /\ dinfo = d
    /\ ovalue = ov
    /\ deps = IF d.kind = "ParamMethod" THEN params_depended_on(ov, d.args) ELSE <<>>
    /\ wrapper_callbacks = IF d.kind = "ParamMethod"
                           THEN grouped(params_depended_on(ov, d.args))
                           ELSE function_listeners(d)
    /\ _pane = Rendered(out, 0)
    /\ _inner_layout = <<0>>
    /\ upd = NoUpd

\* the callable of the listener scenario returns a string
Strings == {out \in Outputs : ~is_reactive(out) /\ out.value = 0}

\* the declaration of the rendering scenario
DependsOnX == {Function(<<"x">>, <<>>)}

\* a wrapper is constructed for a callable declared as one of ds and
\* returning one of outs; O.sub holds a sub-object
InitWrapped(ds, outs) ==
    /\ Built([p \in Params |-> None], 0, Scenario, [p \in Params |-> Absent])
    /\ \E d \in ds, out \in outs :
          Wrapped(d, [x |-> 0, y |-> 0, sub |-> 1, z |-> [k \in SubObjects |-> 0]], out)
    /\ NoCall

InitReactive == InitWrapped(Decls, Strings)

InitRender == InitWrapped(DependsOnX, Outputs)

\* code sets the Number parameter name of O to v; the callable returns
\* results of rs
SetNumber(name, v, rs) ==
    /\ v # ovalue[name]
    /\ \E outs \in [1..Len(Listening(Wrapper, 0, name)) -> rs] :
          Reacts(notify([Wrapper EXCEPT !.ovalue[name] = v, !.upd = Sets(name)],
                        Listening(Wrapper, 0, name), 1, 0, outs))

\* code sets O.sub to v: 0 for a value that is no parameterized object
SetSub(v) ==
    /\ v # ovalue.sub
    /\ \E outs \in [1..Len(Listening(Wrapper, 0, "sub")) -> Strings] :
          Reacts(notify([Wrapper EXCEPT !.ovalue.sub = v, !.upd = Sets("sub")],
                        Listening(Wrapper, 0, "sub"), 1, v, outs))

\* code sets parameter z of sub-object k to v
SetZ(k, v) ==
    /\ v # ovalue.z[k]
    /\ \E outs \in [1..Len(Listening(Wrapper, k, "z")) -> Strings] :
          Reacts(notify([Wrapper EXCEPT !.ovalue.z[k] = v, !.upd = Sets("z")],
                        Listening(Wrapper, k, "z"), 1, 0, outs))

\* the listeners: a wrapper of any declaration, the parameters of O and
\* of the sub-objects changed
NextReactive ==
    \/ \E name \in {"x", "y"}, v \in Numbers : SetNumber(name, v, Strings)
    \/ \E v \in SubObjects \cup {0} : SetSub(v)
    \/ \E k \in SubObjects, v \in Numbers : SetZ(k, v)

SpecReactive == InitReactive /\ [][NextReactive]_vars

\* the rendering: a function of O.x returning any output, O.x changed
NextRender == \E v \in Numbers : SetNumber("x", v, Outputs)

SpecRender == InitRender /\ [][NextRender]_vars

\* ------------------------------------------------- the evaluation
\* a callable without declared dependencies (no _dinfo)
Plain == [kind |-> "none", args |-> <<>>, kw |-> <<>>]

\* the callables evaluated: functions depending on parameters of O
\* positionally or by keyword, methods depending on names, a plain callable
Callables ==
    {Function(<<"x">>, <<>>), Function(<<>>, <<"x">>), Function(<<"x">>, <<"y">>),
     Function(<<"x", "y">>, <<>>), Function(<<"y">>, <<"x">>),
     Function(<<"y", "x">>, <<"x", "y">>),
     Method(<<"x">>), Method(<<"x", "y">>), Plain}

\* the value a dependency had when the callable was wrapped
captured_value(e, name) == e.captured[name]

\* getattr(dep.owner, dep.name)
dep_value(e, name) == e.vals[name]

\* isinstance(d, param.Parameter): the dependencies of a function are
\* parameters, those of a method are names
is_parameter(d, i) == d.kind = "ParamFunction"

\* _eval_function's test: kw_deps or any(isinstance(d, param.Parameter)
\* for d in arg_deps), for a callable that has a _dinfo
passes_values(d) ==
    /\ d.kind # "none"
    /\ d.kw # <<>> \/ \E i \in 1..Len(d.args) : is_parameter(d, i)

\* ParamMethod._eval_function: the positional and the keyword arguments
\* the callable is called with
_eval_function(e) ==
    [e EXCEPT !.called = TRUE,
              !.args = IF passes_values(e.d)
                       THEN [i \in 1..Len(e.d.args) |-> dep_value(e, e.d.args[i])]
                       ELSE <<>>,
              !.kwargs = IF passes_values(e.d)
                         THEN [i \in 1..Len(e.d.kw) |->
                                  [n |-> e.d.kw[i], v |-> dep_value(e, e.d.kw[i])]]
                         ELSE <<>>]

\* a pane, and a callable wrapped while its dependencies have any values
InitEval ==
    /\ Built([p \in Params |-> None], 0, Scenario, [p \in Params |-> Absent])
    /\ NoWrapper
    /\ ctl = NoControl
    /\ res = NoResult
    /\ \E d \in Callables, vs \in [{"x", "y"} -> Numbers] :
          ev = [NoEval EXCEPT !.d = d, !.vals = vs, !.captured = vs]

\* code sets parameter name of O to v
SetDep(name, v) ==
    /\ v # ev.vals[name]
    /\ ev' = [ev EXCEPT !.vals[name] = v, !.called = FALSE, !.args = <<>>, !.kwargs = <<>>]
    /\ UNCHANGED <<pvars, rvars, ctl, res>>

\* the callable is evaluated
Eval ==
    /\ ~ev.called
    /\ ev' = _eval_function(ev)
    /\ UNCHANGED <<pvars, rvars, ctl, res>>

NextEval ==
    \/ \E name \in {"x", "y"}, v \in Numbers : SetDep(name, v)
    \/ Eval

SpecEval == InitEval /\ [][NextEval]_vars

\* ------------------------------------------------------------ the claims
\* the position of parameter p in the declaration
DeclIndex(p) == CHOOSE i \in 1..Len(Declared) : Declared[i] = p

\* the sort key the ordering policy gives parameter p: its precedence, the
\* default precedence when it has none
PolicyKey(p) == IF precedence[p] = None THEN default_precedence ELSE 2 * precedence[p]

\* the positions of the widget box showing parameter p
BoxAt(p) == {i \in 1..Len(box) : box[i].p = p}

\* the widget of parameter p in the current tree has value v
ControlShows(p, v) == \A e \in Entries(State, p) : e.value = v

\* C1: the displayed control list is exactly the whitelisted parameters whose
\* precedence is absent or at least the threshold, each shown once, whatever
\* precedence changes (also to absent, also of a control paired with a toggle)
\* came before
C1_DisplayedExactlyShown ==
    \A p \in Params :
        Cardinality(BoxAt(p)) =
            IF p \in parameters /\ shown(precedence, display_threshold, p) THEN 1 ELSE 0

C3_InSync ==
    /\ (lastOp.kind = "control" /\ BoxAt(lastOp.p) # {} /\ Accepts(lastOp.p, lastOp.v)) =>
          value[lastOp.p] = lastOp.v
    /\ (lastOp.kind = "param" /\ BoxAt(lastOp.p) # {}) =>
          ControlShows(lastOp.p, lastOp.v)

\* C4: after a rebuild the subscriptions are those of a fresh build: every
\* one belongs to a widget of the current tree and none is there twice
C4_FreshSubscriptions ==
    lastOp.kind \in BuildOps \ {"init"} =>
        /\ \A i \in 1..Len(watchers) : IsCurrent(State, watchers[i].p, watchers[i].wid)
        /\ \A i, j \in 1..Len(watchers) : i # j => watchers[i] # watchers[j]

\* C5: the guard is released whenever a handler has returned or raised
C5_GuardReleased == ~_updating

\* C5, its case: a handler that took the guard has raised
C5_Witness == lastOp.kind = "control" /\ obs.raised /\ obs.objCalls > 0 /\ ~_updating

\* C6 as stated: a value the parameter rejects is caught by the handler,
\* which completes normally with the guard released
C6_FailureCaught ==
    (lastOp.kind = "control" /\ lastOp.linked /\ ~Accepts(lastOp.p, lastOp.v)) =>
        ~obs.raised /\ ~_updating

\* C6 as the code has it: the error of a rejected value leaves the handler
\* and reaches whoever wrote the control; the guard is released and the
\* parameter keeps its value
C6_FailurePropagates ==
    (lastOp.kind = "control" /\ lastOp.linked /\ ~Accepts(lastOp.p, lastOp.v)) =>
        /\ obs.raised
        /\ ~_updating
        /\ value[lastOp.p] = lastOp.oldParam
        /\ obs.objEv = <<>>

\* C6, its case: a linked control was given a value its parameter rejects
C6_Witness ==
    /\ lastOp.kind = "control" /\ lastOp.linked
    /\ ~Accepts(lastOp.p, lastOp.v)
    /\ obs.objCalls = 1

\* C7: a threshold raised and, with nothing in between, lowered to where it
\* was shows the parameters it showed before the raise, in their order
C7_RaiseUndone == thrHist.phase = "lowered" => Displayed(box) = thrHist.shown

C9_RebuildIdempotent ==
    (lastOp.kind = "rebuild" /\ prevBuild # <<>>) => Sig(_widgets) = prevBuild

\* C10: a parameter with an override (a type, an instance or a dictionary
\* naming a type) is built with the override's widget type on every build
C10_OverrideWins ==
    \A i \in 1..Len(_widgets) :
        (_widgets[i].p \in Params /\ supplied[_widgets[i].p] \in OvKinds) =>
            _widgets[i].wtype = OvClass(_widgets[i].p)

\* the panes of the expansion layout that belong to parameter p
PanesOf(p) == {i \in 1..Len(nested) : nested[i].p = p}

\* the last operation changed the value of a parameter that was expanded
ChangedWhileOpen ==
    /\ lastOp.kind \in {"param", "control"}
    /\ lastOp.p \in wasOpen
    /\ value[lastOp.p] # lastOp.oldParam

\* C11: switching a sub-object's expand toggle on leaves exactly one nested
\* pane for that sub-object in the expansion layout and switching it off
\* leaves none; a value changed to a non-parameterized one while expanded
\* leaves no nested pane and the toggle disabled; a value changed to another
\* parameterized object leaves exactly one nested pane, for the new object
C11_ExpandFollowsToggle ==
    /\ (lastOp.kind = "toggle" /\ lastOp.v = 1) =>
          /\ Cardinality(PanesOf(lastOp.p)) = 1
          /\ \A i \in PanesOf(lastOp.p) : nested[i].obj = value[lastOp.p]
    /\ (lastOp.kind = "toggle" /\ lastOp.v = 0) => PanesOf(lastOp.p) = {}
    /\ (ChangedWhileOpen /\ ~is_parameterized(lastOp.p, value[lastOp.p])) =>
          /\ PanesOf(lastOp.p) = {}
          /\ toggles[lastOp.p].disabled
    /\ (ChangedWhileOpen /\ is_parameterized(lastOp.p, value[lastOp.p])) =>
          /\ Cardinality(PanesOf(lastOp.p)) = 1
          /\ \A i \in PanesOf(lastOp.p) : nested[i].obj = value[lastOp.p]

\* the callable is declared to depend on parameter name of O
DependsOn(name) ==
    \E i \in 1..Len(dinfo.args \o dinfo.kw) : (dinfo.args \o dinfo.kw)[i] = name

\* C12: a single change of O.x, on which the callable of a reactive wrapper
\* is declared to depend positionally, by keyword or both, and whatever else
\* it depends on, makes the wrapper evaluate the callable exactly once
C12_OneEvaluation ==
    (upd.op = "set" /\ upd.name = "x" /\ DependsOn("x")) => upd.evals = 1

\* C13: an update whose output maps to the rendered wrapper's pane type and
\* has no registered links keeps the rendered wrapper (same identity, same
\* name) and sets on it exactly the output's parameters other than the name
\* whose value is not identical to the current one; any other update puts a
\* fresh wrapper for the output at the same position of the inner layout
C13_MergeOrReplace ==
    upd.evals >= 1 =>
        IF upd.before.cls = get_pane_type(upd.out) /\ ~upd.out.links
        THEN /\ _pane.id = upd.before.id
             /\ _pane.name = upd.before.name
             /\ _inner_layout = <<upd.before.id>>
             /\ is_reactive(upd.out) =>
                   /\ upd.copied = {k \in {"width", "value"} : upd.out[k] # upd.before[k]}
                   /\ \A k \in {"width", "value"} : _pane[k] = upd.out[k]
             /\ ~is_reactive(upd.out) => _pane.value = upd.out.value
        ELSE /\ _pane.id # upd.before.id
             /\ _pane = Rendered(upd.out, _pane.id)
             /\ _inner_layout = <<_pane.id>>

\* an update in place has copied one parameter of a widget and left the
\* other, the name differing
C13_Witness ==
    /\ upd.evals = 1
    /\ upd.inplace
    /\ is_reactive(upd.out)
    /\ upd.copied = {"width"}
    /\ upd.out.name # _pane.name

\* the dependencies the method has now: the owner's parameters declared,
\* and z of the parameterized object that sub holds now
CurrentDeps ==
    {PInfo(0, dinfo.args[i]) : i \in {j \in 1..Len(dinfo.args) : dinfo.args[j] # "sub.z"}}
    \cup {PInfo(ovalue.sub, "z") : i \in {j \in 1..Len(dinfo.args) :
                                             dinfo.args[j] = "sub.z" /\ ovalue.sub \in SubObjects}}

\* the parameters the wrapper listens to
Listened ==
    UNION {{PInfo(wrapper_callbacks[i].inst, n) : n \in wrapper_callbacks[i].names} :
              i \in 1..Len(wrapper_callbacks)}

\* C14: after a re-evaluation of a ParamMethod that a change of a dependency
\* triggered (a nested parameterized dependency replaced by another object
\* or by a value that is no parameterized object included), the wrapper
\* listens to exactly the method's current dependencies
C14_ListenersMatchDeps ==
    (dinfo.kind = "ParamMethod" /\ upd.evals >= 1) => Listened = CurrentDeps

\* C15: the Control of an Action parameter has no link_widget subscription;
\* a click on it calls the parameter's current callable, once; after the
\* callable was replaced a click calls the new callable only
C15_ActionCallsCurrent ==
    /\ \A i \in 1..Len(watchers) :
          ptype[watchers[i].p] = "Action" => watchers[i].fn # "link_widget"
    /\ lastOp.kind = "click" => obs.called = <<value[lastOp.p]>>

\* C16: a Param pane constructed with an expand_layout that is neither a
\* layout instance nor a layout class has failed with the configuration
\* error (ValueError), no widget built and no subscription registered
C16_BadLayoutFails ==
    ~(is_panel_instance(expand_layout) \/ is_panel_type(expand_layout)) =>
        /\ init_error = "ValueError"
        /\ _widgets = <<>>
        /\ box = <<>>
        /\ watchers = <<>>

\* the subscriptions of link on the object for parameter p
ObjectListeners(p) ==
    {i \in 1..Len(watchers) :
        watchers[i].inst = ObjId /\ watchers[i].fn = "link" /\ watchers[i].p = p}

\* C17: every call of Param.widget for a parameter registers a further full
\* set of link subscriptions on the object: after n builds the object has n
\* times the subscriptions of one build for each parameter built
C17_ListenersAccumulate ==
    \A p \in parameters : Cardinality(ObjectListeners(p)) = nbuilds * Len(link_whats(p))

\* the widget of c was built twice and the object has two full sets of
\* subscriptions for c
C17_Witness ==
    /\ nbuilds = 2
    /\ "c" \in parameters
    /\ Cardinality(ObjectListeners("c")) = 2 * Len(link_whats("c"))

\* C18: a rebuild is atomic for an observer: when the widgets and links of
\* the new tree were built every subscription of the old tree had been torn
\* down, and the widget box shows widgets of the new tree only, each once
C18_RebuildAtomic ==
    lastOp.kind \in BuildOps \ {"init"} =>
        /\ obs.live = <<>>
        /\ \A i \in 1..Len(box) :
              \E j \in 1..Len(_widgets) : box[i] = BoxId(_widgets[j], nbuilds)
        /\ \A i, j \in 1..Len(box) : box[i] = box[j] => i = j

C20_OneDirectionInFlight ==
    /\ \A e \in obs.links : e.during => e.engaged
    /\ obs.crossed = {}

\* C21: in every quiescent state the widget of each parameter built shows
\* the parameter's value, also after a Control -> Object write of a
\* parameter during which a watcher of the object's own has assigned
\* another parameter
C21_WidgetsShowValues ==
    \A p \in parameters : \A e \in Entries(State, p) : e.value = value[p]

\* the subscriptions held for parameter p: the links from the object to its
\* widget and from the widget to the object
SubscriptionsOf(p) == {i \in 1..Len(watchers) : watchers[i].p = p}

\* C22: while a parameter built is below the display threshold (at build
\* time or after its precedence dropped) its widget is out of the box and no
\* subscription for the parameter is active
C22_HiddenUnlinked ==
    \A p \in parameters :
        ~shown(precedence, display_threshold, p) =>
            BoxAt(p) = {} /\ SubscriptionsOf(p) = {}

\* the names the widgets of parameter p show
LabelsOf(p) == {wmeta[p]["label"] : e \in Entries(State, p)}

\* C23: while show_labels is false the widget of every parameter that is
\* not an Action has the empty name, at build time and after any change of
\* the parameter's label; the widget of an Action always has the
\* parameter's label as its name
C23_LabelsSuppressed ==
    \A p \in parameters :
        /\ (~show_labels /\ ptype[p] # "Action") => LabelsOf(p) \subseteq {EmptyLabel}
        /\ ptype[p] = "Action" => LabelsOf(p) \subseteq {meta[p]["label"]}

\* C24: the widget of a parameter is paired with an expand toggle exactly
\* when its value or one of its options is a parameterized object and
\* expand_button is true, or None while expand is false; and the toggle is
\* disabled exactly when the parameter's current value is not a
\* parameterized object
C24_ToggleFollowsValue ==
    \A p \in parameters : \A e \in Entries(State, p) :
        /\ e.row <=>
              /\ \/ is_parameterized(p, e.value)
                 \/ \E o \in widget_options(p, e.wtype) : is_parameterized(p, o)
              /\ expand_button = "True" \/ (expand_button = "None" /\ ~expand)
        /\ e.row => (toggles[p].disabled <=> ~is_parameterized(p, value[p]))

\* C25: for a parameter with soft bounds the control the build constructs
\* gets start and end from the bounds that are set; when start or end is still missing past bounds
\* and override and the class resolved is not LiteralInput, the control is a
\* LiteralInput; a step is set only when the parameter has one and the
\* final class has a step
C25_BoundsAndStep ==
    (ctl.done /\ has_get_soft_bounds(ctl.p)) =>
        /\ ~ctl.raised
        /\ (ctl.kind # "instance" /\ ctl.lo # None /\ has_range(ctl.cls)) =>
              ctl.kw.start = ctl.lo
        /\ (ctl.kind # "instance" /\ ctl.hi # None /\ has_range(ctl.cls)) =>
              ctl.kw.end = ctl.hi
        /\ ((ctl.lo = None /\ ctl.ov.start = NotInKw) \/ (ctl.hi = None /\ ctl.ov.end = NotInKw)) =>
              ctl.cls = "LiteralInput"
        /\ ctl.step_set =>
              /\ ctl.step # None /\ has_step(ctl.cls)
              /\ ctl.kind # "instance" => ctl.kw.step = ctl.step

\* the positions of the types with a mapping in a chain
MappedIn(chain) == {i \in 1..Len(chain) : chain[i] \in DOMAIN _mapping}

\* the most specific type with a mapping in a chain, the base coming first
MostSpecific(chain) ==
    chain[CHOOSE i \in MappedIn(chain) : \A j \in MappedIn(chain) : j <= i]

\* C26: for every descriptor Param.widget_type returns the mapping of the
\* most specific type of the descriptor's inheritance chain that has one,
\* the factory's result for the descriptor when that mapping is the factory
\* function, and never returns nothing
C26_MostSpecificMapping ==
    res.done =>
        /\ MappedIn(classlist(res.po.type)) # {}
        /\ res.out # "NoWidget"
        /\ res.out = IF MostSpecific(classlist(res.po.type)) = "FileSelector"
                     THEN (IF res.po.path THEN "Select" ELSE "TextInput")
                     ELSE _mapping[MostSpecific(classlist(res.po.type))]

C26_Witness ==
    /\ res.done
    /\ res.po.type = "FileSelector" /\ res.po.path
    /\ res.out = "Select"

\* C27: an evaluation of a callable that declares keyword dependencies, or a
\* positional dependency that is a parameter, passes the values its
\* positional and keyword dependencies have at the moment of the
\* evaluation; any other callable is called without arguments
C27_CurrentValuesPassed ==
    ev.called =>
        IF ev.d.kind # "none" /\ (Len(ev.d.kw) > 0 \/ (ev.d.kind = "ParamFunction" /\ Len(ev.d.args) > 0))
        THEN /\ Len(ev.args) = Len(ev.d.args)
             /\ \A i \in 1..Len(ev.d.args) : ev.args[i] = ev.vals[ev.d.args[i]]
             /\ Len(ev.kwargs) = Len(ev.d.kw)
             /\ \A i \in 1..Len(ev.d.kw) :
                   ev.kwargs[i] = [n |-> ev.d.kw[i], v |-> ev.vals[ev.d.kw[i]]]
        ELSE ev.args = <<>> /\ ev.kwargs = <<>>

C27_Witness ==
    /\ ev.called
    /\ ev.d = Function(<<"y">>, <<"x">>)
    /\ ev.vals.x # ev.captured.x /\ ev.vals.y # ev.captured.y
    /\ ev.args = <<ev.vals.y>>
    /\ ev.kwargs = <<[n |-> "x", v |-> ev.vals.x]>>

\* the expansion layout holds a nested pane for the current value of p
Expanded(p) == \E i \in 1..Len(nested) : nested[i] = Pane(p, value[p])

\* C28: for every parameter with an expand toggle the expansion layout
\* holds a nested pane for the parameter's current value exactly when the
\* toggle is on and the value is a parameterized object, after any toggle
\* switches and value changes, also when the value stops being a
\* parameterized object and becomes one again while the toggle stays on
C28_NestedIffOnAndParameterized ==
    \A p \in parameters :
        (\E e \in Entries(State, p) : e.row) =>
            (Expanded(p) <=> (toggles[p].value /\ is_parameterized(p, value[p])))

\* C29: after a rebuild every nested pane of the expansion layout shows the
\* current value of a parameter built, and none is left from the build
\* before (a build expands nothing by itself unless expand is set), also
\* when the expansion layout is not the widget box
C29_NoNestedSurvives ==
    lastOp.kind \in BuildOps \ {"init"} =>
        /\ \A i \in 1..Len(nested) :
              /\ nested[i].p \in parameters
              /\ nested[i].obj = value[nested[i].p]
        /\ ~expand => nested = <<>>

====
